---- MODULE Spec2Model ----
(***************************************************************************)
(* secp256k1authn: deterministic per-relying-party key derivation          *)
(* (hashToIndex, makeAuthPath, deriveAuthKeyFromRoot, fromMnemonic) and    *)
(* the challenge sign / verify pair, as a state machine whose actions are  *)
(* the calls a client makes on the library.                                *)
(*                                                                         *)
(* The library's own code is translated line by line.  The packages it     *)
(* imports (@noble/hashes, @noble/secp256k1, @scure/bip32, @scure/bip39)   *)
(* are modelled at their interface: SHA-256 by its real digests on the     *)
(* inputs used here, key derivation and ECDSA as free (collision-free)     *)
(* term constructors.                                                      *)
(***************************************************************************)
EXTENDS Integers, Sequences, FiniteSets, TLC

VARIABLES
  ctxs,   \* the RootContexts created so far, each closing over its root node
  prev,   \* the call made before the latest one
  last,   \* the latest call: its operation, arguments and outcome
  hmacSha256Sync  \* secp.etc.hmacSha256Sync: the HMAC hook of @noble/secp256k1

vars == <<ctxs, prev, last, hmacSha256Sync>>

(***************************************************************************)
(* JavaScript numbers.  Every number the library handles is an integer of  *)
(* magnitude below 2^47, which a double holds exactly; it is written here  *)
(* as hi * 2^16 + lo with 0 <= lo < 2^16, so that values at and above 2^31 *)
(* (the hardened indices) stay exact.                                      *)
(***************************************************************************)
Num(hi, lo) == [hi |-> hi, lo |-> lo]

FromInt(i) == Num(i \div 65536, i % 65536)

\* The value `undefined` of an argument or property that was left out.
Undefined == [undefined |-> TRUE]

\* A destructuring or parameter default: `x = d`.
Default(x, d) == IF x = Undefined THEN d ELSE x

\* a + b on numbers.
NumAdd(a, b) ==
  LET s == a.lo + b.lo
  IN  Num(a.hi + b.hi + (s \div 65536), s % 65536)

\* -a on numbers.
NumNeg(a) == IF a.lo = 0 THEN Num(0 - a.hi, 0) ELSE Num(0 - a.hi - 1, 65536 - a.lo)

\* a < b on numbers.
NumLess(a, b) == a.hi < b.hi \/ (a.hi = b.hi /\ a.lo < b.lo)

DigitChar == <<"0", "1", "2", "3", "4", "5", "6", "7", "8", "9">>

\* The decimal digits of a number >= 0, most significant first.
RECURSIVE Digits(_)
Digits(n) ==
  LET t == (n.hi % 10) * 65536 + n.lo
      q == Num(n.hi \div 10, t \div 10)
      d == DigitChar[(t % 10) + 1]
  IN  IF q = Num(0, 0) THEN <<d>> ELSE Digits(q) \o <<d>>

\* Number::toString, as a template literal `${n}` applies it: a string is a
\* sequence of one-character strings.
NumberToString(n) ==
  IF n.hi < 0 THEN <<"-">> \o Digits(NumNeg(n)) ELSE Digits(n)

\* The bitwise AND of two n-bit patterns.
RECURSIVE BitAnd(_, _, _)
BitAnd(x, y, n) ==
  IF n = 0 THEN 0
  ELSE (x % 2) * (y % 2) + 2 * BitAnd(x \div 2, y \div 2, n - 1)

\* a & b: both operands go through ToInt32 (their low 32 bits), and the
\* result is read back as a signed 32-bit integer.
Int32And(a, b) ==
  LET hi == BitAnd(a.hi % 65536, b.hi % 65536, 16)
      lo == BitAnd(a.lo, b.lo, 16)
  IN  Num(IF hi >= 32768 THEN hi - 65536 ELSE hi, lo)

(***************************************************************************)
(* constants.ts                                                            *)
(***************************************************************************)
PURPOSE_AUTH == 128273

DEFAULT_AUTH_VERSION == 0

\* 0x80000000
HARDENED_OFFSET == Num(32768, 0)

(***************************************************************************)
(* Strings and bytes.  A string value is named by its text; CodePoints     *)
(* gives the code points of each string the model uses.                    *)
(***************************************************************************)
CodePoints ==
  ("" :> <<>>)
  @@ ("auth.openpleb.io" :> <<97, 117, 116, 104, 46, 111, 112, 101, 110, 112, 108, 101, 98, 46, 105, 111>>)
  @@ ("example.com" :> <<101, 120, 97, 109, 112, 108, 101, 46, 99, 111, 109>>)
  @@ ("auth.example.com" :> <<97, 117, 116, 104, 46, 101, 120, 97, 109, 112, 108, 101, 46, 99, 111, 109>>)
  @@ ("é.example" :> <<233, 46, 101, 120, 97, 109, 112, 108, 101>>)
  @@ ("rp91957.example.com" :> <<114, 112, 57, 49, 57, 53, 55, 46, 101, 120, 97, 109, 112, 108, 101, 46, 99, 111, 109>>)
  @@ ("rp166015.example.com" :> <<114, 112, 49, 54, 54, 48, 49, 53, 46, 101, 120, 97, 109, 112, 108, 101, 46, 99, 111, 109>>)
  @@ ("rp13521.example.com" :> <<114, 112, 49, 51, 53, 50, 49, 46, 101, 120, 97, 109, 112, 108, 101, 46, 99, 111, 109>>)
  @@ ("rp116864.example.com" :> <<114, 112, 49, 49, 54, 56, 54, 52, 46, 101, 120, 97, 109, 112, 108, 101, 46, 99, 111, 109>>)
  @@ ("Liberty is always freedom from the government. -Ludwig von Mises" :> <<76, 105, 98, 101, 114, 116, 121, 32, 105, 115, 32, 97, 108, 119, 97, 121, 115, 32, 102, 114, 101, 101, 100, 111, 109, 32, 102, 114, 111, 109, 32, 116, 104, 101, 32, 103, 111, 118, 101, 114, 110, 109, 101, 110, 116, 46, 32, 45, 76, 117, 100, 119, 105, 103, 32, 118, 111, 110, 32, 77, 105, 115, 101, 115>>)
  @@ ("challenge-1" :> <<99, 104, 97, 108, 108, 101, 110, 103, 101, 45, 49>>)

\* The UTF-8 encoding of one code point.
Utf8Char(c) ==
  IF c < 128 THEN <<c>>
  ELSE IF c < 2048 THEN <<192 + (c \div 64), 128 + (c % 64)>>
  ELSE IF c < 65536
       THEN <<224 + (c \div 4096), 128 + ((c \div 64) % 64), 128 + (c % 64)>>
  ELSE <<240 + (c \div 262144), 128 + ((c \div 4096) % 64),
         128 + ((c \div 64) % 64), 128 + (c % 64)>>

\* The UTF-8 encoding of a sequence of code points.
RECURSIVE Utf8(_)
Utf8(cps) ==
  IF Len(cps) = 0 THEN <<>>
  ELSE IF Len(cps) = 1 THEN Utf8Char(cps[1])
  ELSE LET half == Len(cps) \div 2
       IN  Utf8(SubSeq(cps, 1, half)) \o Utf8(SubSeq(cps, half + 1, Len(cps)))

\* new TextEncoder().encode(s)
TextEncoder_encode(s) == Utf8(CodePoints[s])

\* sha256 of @noble/hashes: the SHA-256 digests (32 bytes) of the byte
\* strings the model hashes.
sha256 ==
  (<<>>
      :> <<227, 176, 196, 66, 152, 252, 28, 20, 154, 251, 244, 200, 153, 111, 185, 36, 39, 174, 65, 228, 100, 155, 147, 76, 164, 149, 153, 27, 120, 82, 184, 85>>)
  @@ (<<97, 117, 116, 104, 46, 111, 112, 101, 110, 112, 108, 101, 98, 46, 105, 111>>
      :> <<83, 18, 112, 233, 170, 43, 111, 53, 102, 169, 118, 167, 115, 39, 246, 22, 37, 3, 42, 163, 150, 72, 183, 144, 146, 68, 75, 92, 141, 250, 8, 135>>)
  @@ (<<101, 120, 97, 109, 112, 108, 101, 46, 99, 111, 109>>
      :> <<163, 121, 166, 246, 238, 175, 185, 165, 94, 55, 140, 17, 128, 52, 226, 117, 30, 104, 47, 171, 159, 45, 48, 171, 19, 210, 18, 85, 134, 206, 25, 71>>)
  @@ (<<97, 117, 116, 104, 46, 101, 120, 97, 109, 112, 108, 101, 46, 99, 111, 109>>
      :> <<194, 4, 200, 84, 255, 229, 243, 90, 59, 133, 32, 139, 217, 137, 198, 13, 28, 86, 213, 108, 253, 154, 110, 47, 88, 242, 139, 150, 209, 126, 7, 51>>)
  @@ (<<195, 169, 46, 101, 120, 97, 109, 112, 108, 101>>
      :> <<27, 175, 142, 94, 71, 89, 10, 175, 112, 38, 45, 133, 139, 57, 84, 102, 212, 135, 168, 185, 151, 49, 8, 226, 8, 34, 111, 89, 80, 130, 40, 128>>)
  @@ (<<114, 112, 57, 49, 57, 53, 55, 46, 101, 120, 97, 109, 112, 108, 101, 46, 99, 111, 109>>
      :> <<161, 40, 240, 227, 62, 86, 168, 20, 58, 186, 23, 39, 59, 97, 189, 110, 28, 201, 82, 172, 150, 26, 63, 141, 204, 172, 56, 148, 188, 46, 103, 120>>)
  @@ (<<114, 112, 49, 54, 54, 48, 49, 53, 46, 101, 120, 97, 109, 112, 108, 101, 46, 99, 111, 109>>
      :> <<33, 40, 240, 227, 116, 133, 153, 141, 62, 204, 87, 92, 5, 18, 175, 214, 244, 227, 19, 29, 71, 38, 182, 29, 29, 125, 116, 84, 162, 238, 251, 86>>)
  @@ (<<114, 112, 49, 51, 53, 50, 49, 46, 101, 120, 97, 109, 112, 108, 101, 46, 99, 111, 109>>
      :> <<43, 46, 75, 86, 90, 20, 181, 187, 54, 165, 113, 43, 7, 173, 179, 199, 112, 247, 158, 102, 219, 214, 247, 231, 143, 186, 66, 232, 164, 244, 140, 83>>)
  @@ (<<114, 112, 49, 49, 54, 56, 54, 52, 46, 101, 120, 97, 109, 112, 108, 101, 46, 99, 111, 109>>
      :> <<43, 46, 75, 86, 90, 223, 163, 157, 103, 135, 142, 211, 245, 173, 182, 145, 47, 226, 233, 222, 82, 127, 15, 34, 39, 140, 127, 32, 102, 137, 231, 108>>)
  @@ (<<76, 105, 98, 101, 114, 116, 121, 32, 105, 115, 32, 97, 108, 119, 97, 121, 115, 32, 102, 114, 101, 101, 100, 111, 109, 32, 102, 114, 111, 109, 32, 116, 104, 101, 32, 103, 111, 118, 101, 114, 110, 109, 101, 110, 116, 46, 32, 45, 76, 117, 100, 119, 105, 103, 32, 118, 111, 110, 32, 77, 105, 115, 101, 115>>
      :> <<131, 40, 138, 40, 124, 235, 154, 234, 241, 231, 8, 178, 184, 45, 16, 106, 248, 143, 70, 97, 78, 27, 124, 41, 104, 90, 141, 197, 222, 238, 35, 117>>)
  @@ (<<99, 104, 97, 108, 108, 101, 110, 103, 101, 45, 49>>
      :> <<2, 50, 18, 209, 253, 79, 10, 58, 208, 60, 69, 197, 42, 64, 135, 31, 70, 138, 188, 65, 110, 193, 129, 246, 238, 191, 195, 34, 108, 196, 117, 60>>)

\* A string argument, and a Uint8Array argument.
Str(s) == [type |-> "string", str |-> s]

Bytes(b) == [type |-> "Uint8Array", bytes |-> b]

sha256Bytes(data) ==
  LET bytes == IF data.type = "string" THEN TextEncoder_encode(data.str)
               ELSE data.bytes
  IN  sha256[bytes]

\* getUint32 that reads the four bytes little-endian.
getUint32_littleEndian(h, byteOffset) ==
  Num(h[byteOffset + 4] * 256 + h[byteOffset + 3],
      h[byteOffset + 2] * 256 + h[byteOffset + 1])

\* DataView.getUint32(byteOffset, false): four bytes, big-endian, unsigned.
getUint32(h, byteOffset) ==
  Num(h[byteOffset + 1] * 256 + h[byteOffset + 2],
      h[byteOffset + 3] * 256 + h[byteOffset + 4])

\* hashToIndex without the mask: the raw 32-bit word.
hashToIndex_unmasked(input) ==
  getUint32(sha256Bytes(Str(input)), 0)

\* 31-bit index from string
hashToIndex(input) ==
  LET h == sha256Bytes(Str(input))
      raw == getUint32(h, 0)
      index == Int32And(raw, Num(32767, 65535))
  IN  index

(***************************************************************************)
(* hd/path.ts                                                              *)
(***************************************************************************)
\* makeAuthPath with the two middle indices in the other order.
makeAuthPath_swapped(rpIndex, deviceIdArg, keyIndexArg, versionArg) ==
  LET deviceId == Default(deviceIdArg, FromInt(0))
      keyIndex == Default(keyIndexArg, FromInt(0))
      version  == Default(versionArg, FromInt(DEFAULT_AUTH_VERSION))
      purposeH == NumAdd(FromInt(PURPOSE_AUTH), HARDENED_OFFSET)
      versionH == NumAdd(version, HARDENED_OFFSET)
      deviceH  == NumAdd(deviceId, HARDENED_OFFSET)
      rpH      == NumAdd(rpIndex, HARDENED_OFFSET)
  IN  [path    |-> <<"m", "/">> \o NumberToString(FromInt(PURPOSE_AUTH))
                   \o <<"'", "/">> \o NumberToString(version)
                   \o <<"'", "/">> \o NumberToString(deviceId)
                   \o <<"'", "/">> \o NumberToString(rpIndex)
                   \o <<"'", "/">> \o NumberToString(keyIndex),
       indices |-> <<purposeH, deviceH, versionH, rpH, keyIndex>>]

\* makeAuthPath with the path printing the offset values of the indices.
makeAuthPath_offsetInPath(rpIndex, deviceIdArg, keyIndexArg, versionArg) ==
  LET deviceId == Default(deviceIdArg, FromInt(0))
      keyIndex == Default(keyIndexArg, FromInt(0))
      version  == Default(versionArg, FromInt(DEFAULT_AUTH_VERSION))
      purposeH == NumAdd(FromInt(PURPOSE_AUTH), HARDENED_OFFSET)
      versionH == NumAdd(version, HARDENED_OFFSET)
      deviceH  == NumAdd(deviceId, HARDENED_OFFSET)
      rpH      == NumAdd(rpIndex, HARDENED_OFFSET)
  IN  [path    |-> <<"m", "/">> \o NumberToString(purposeH)
                   \o <<"'", "/">> \o NumberToString(versionH)
                   \o <<"'", "/">> \o NumberToString(deviceH)
                   \o <<"'", "/">> \o NumberToString(rpH)
                   \o <<"'", "/">> \o NumberToString(keyIndex),
       indices |-> <<purposeH, versionH, deviceH, rpH, keyIndex>>]

\* makeAuthPath with an apostrophe after the last component as well.
makeAuthPath_allMarked(rpIndex, deviceIdArg, keyIndexArg, versionArg) ==
  LET deviceId == Default(deviceIdArg, FromInt(0))
      keyIndex == Default(keyIndexArg, FromInt(0))
      version  == Default(versionArg, FromInt(DEFAULT_AUTH_VERSION))
      purposeH == NumAdd(FromInt(PURPOSE_AUTH), HARDENED_OFFSET)
      versionH == NumAdd(version, HARDENED_OFFSET)
      deviceH  == NumAdd(deviceId, HARDENED_OFFSET)
      rpH      == NumAdd(rpIndex, HARDENED_OFFSET)
  IN  [path    |-> <<"m", "/">> \o NumberToString(FromInt(PURPOSE_AUTH))
                   \o <<"'", "/">> \o NumberToString(version)
                   \o <<"'", "/">> \o NumberToString(deviceId)
                   \o <<"'", "/">> \o NumberToString(rpIndex)
                   \o <<"'", "/">> \o NumberToString(keyIndex) \o <<"'">>,
       indices |-> <<purposeH, versionH, deviceH, rpH, keyIndex>>]

\* Build the hardened derivation path for an auth key.
makeAuthPath(rpIndex, deviceIdArg, keyIndexArg, versionArg) ==
  LET deviceId == Default(deviceIdArg, FromInt(0))
      keyIndex == Default(keyIndexArg, FromInt(0))
      version  == Default(versionArg, FromInt(DEFAULT_AUTH_VERSION))
      purposeH == NumAdd(FromInt(PURPOSE_AUTH), HARDENED_OFFSET)
      versionH == NumAdd(version, HARDENED_OFFSET)
      deviceH  == NumAdd(deviceId, HARDENED_OFFSET)
      rpH      == NumAdd(rpIndex, HARDENED_OFFSET)
      indices  == <<purposeH, versionH, deviceH, rpH, keyIndex>>
      path     == <<"m", "/">> \o NumberToString(FromInt(PURPOSE_AUTH))
                  \o <<"'", "/">> \o NumberToString(version)
                  \o <<"'", "/">> \o NumberToString(deviceId)
                  \o <<"'", "/">> \o NumberToString(rpIndex)
                  \o <<"'", "/">> \o NumberToString(keyIndex)
  IN  [path |-> path, indices |-> indices]

(***************************************************************************)
(* A computation that may throw: its value, or the message of its Error.   *)
(***************************************************************************)
Ok(value) == [ok |-> TRUE, value |-> value]

Fail(message) == [ok |-> FALSE, value |-> message]

(***************************************************************************)
(* hd/mnemonic.ts, over @scure/bip39                                       *)
(***************************************************************************)
TEST_MNEMONIC ==
  "unaware nerve cat uncle fly among hobby hedgehog favorite zoo runway direct"

\* bip39.validateMnemonic(mnemonic, wordlist)
validateMnemonic(mnemonic) == mnemonic \in {TEST_MNEMONIC}

\* bip39.mnemonicToSeedSync(mnemonic, passphrase): the 64-byte PBKDF2 output,
\* one seed for each (mnemonic, passphrase).
mnemonicToSeedSync(mnemonic, passphrase) ==
  [mnemonic |-> mnemonic, passphrase |-> passphrase]

mnemonicToSeed(mnemonic, passphrase) ==
  IF ~validateMnemonic(mnemonic) THEN Fail("Invalid mnemonic")
  ELSE Ok(mnemonicToSeedSync(mnemonic, passphrase))

(***************************************************************************)
(* hd/bip32.ts, over @scure/bip32.  An HDKey node is the seed it descends  *)
(* from and the chain of child indices that leads to it; a public-only     *)
(* node carries no private key.                                            *)
(***************************************************************************)
Null == [null |-> TRUE]

HDKey_fromMasterSeed(seed) == [seed |-> seed, chain |-> <<>>, hasPrivate |-> TRUE]

rootFromSeed(seed) == HDKey_fromMasterSeed(seed)

\* node.privateKey: 32 bytes, one key for each (seed, chain).
privateKey(node) ==
  IF node.hasPrivate THEN [seed |-> node.seed, chain |-> node.chain] ELSE Null

\* An integer in [0, 2^32 - 1].
IsU32(n) == n.hi >= 0 /\ n.hi < 65536

\* index >= HARDENED_OFFSET
IsHardenedIndex(index) == ~NumLess(index, HARDENED_OFFSET)

\* node.deriveChild(index)
deriveChild(node, index) ==
  IF ~IsU32(index) THEN Fail("invalid number, should be from 0 to 2**32-1")
  ELSE IF IsHardenedIndex(index) /\ ~node.hasPrivate
       THEN Fail("Could not derive hardened child key")
  ELSE Ok([node EXCEPT !.chain = Append(@, index)])

(***************************************************************************)
(* @noble/secp256k1                                                        *)
(***************************************************************************)
\* A 32-byte value that is a scalar in [1, n - 1]: the private key of a node.
IsPrivateKey(privKey) == DOMAIN privKey = {"seed", "chain"}

\* privKey.length
ByteLength(privKey) ==
  IF "length" \in DOMAIN privKey THEN privKey.length ELSE 32

\* secp.getPublicKey(privKey, true): the 33-byte compressed point of privKey.
getPublicKey(privKey, isCompressed) ==
  [pubOf |-> privKey, compressed |-> isCompressed]

\* A byte string that decodes to a point of the curve.
IsPoint(pubKey) == DOMAIN pubKey = {"pubOf", "compressed"}

\* hmac(sha256, key, secp.etc.concatBytes(...msgs)): HMAC-SHA256.
hmac(key, msgs) == [hmacOf |-> <<key, msgs>>]

\* The hook sign.ts installs, and one the host program installed before it.
\* The package requires of a hook that it computes HMAC-SHA256.
LibraryHook == [installedBy |-> "auth/sign.ts"]

HostHook == [installedBy |-> "host"]

\* A call of the hook.
CallHook(hook, key, msgs) == hmac(key, msgs)

\* The load of auth/sign.ts that leaves the hook as it finds it.
LoadSignModule_keepsUnset(installed) == installed

\* if (!secp.etc.hmacSha256Sync) secp.etc.hmacSha256Sync = ...; run once,
\* when auth/sign.ts is loaded.  The hook as it is after the load.
LoadSignModule(installed) ==
  IF installed = Undefined THEN LibraryHook ELSE installed

\* secp.sign(msgHash, privKey): the signature (r, s) made with the RFC 6979
\* nonce k, which secp.etc.hmacSha256Sync derives from the key and the
\* digest: r is the x coordinate of k * G, s is k^-1 (digest + r * key).
secp_sign(msgHash, privKey) ==
  IF ByteLength(privKey) # 32 THEN Fail("Uint8Array expected")
  ELSE IF ~IsPrivateKey(privKey) THEN Fail("private key out of range")
  ELSE IF hmacSha256Sync = Undefined THEN Fail("etc.hmacSha256Sync not set")
  ELSE LET k == CallHook(hmacSha256Sync, privKey, msgHash)
       IN  Ok([r |-> [pointOf |-> k],
               s |-> [key |-> privKey, digest |-> msgHash, nonce |-> k]])

\* signature.toCompactRawBytes(): r || s, 64 bytes.
toCompactRawBytes(signature) ==
  [length |-> 64, r |-> signature.r, s |-> signature.s]

\* secp.verify(signature, msgHash, pubKey): a signature of another length
\* is refused with an Error; a public key that is no point of the curve
\* makes it false; otherwise it is the ECDSA verification relation.
secp_verify(signature, msgHash, pubKey) ==
  IF signature.length # 64 THEN Fail("signature must be 64 bytes")
  ELSE IF ~IsPoint(pubKey) THEN Ok(FALSE)
  ELSE LET r == signature.r
           s == signature.s
       IN  Ok(/\ DOMAIN r = {"pointOf"}
              /\ DOMAIN s = {"key", "digest", "nonce"}
              /\ s.key = pubKey.pubOf
              /\ s.digest = msgHash
              /\ r.pointOf = s.nonce)

(***************************************************************************)
(* auth/derive.ts                                                          *)
(***************************************************************************)
\* for (const idx of indices) node = node.deriveChild(idx)
RECURSIVE DeriveAll(_, _)
DeriveAll(node, indices) ==
  IF indices = <<>> THEN Ok(node)
  ELSE LET child == deriveChild(node, Head(indices))
       IN  IF ~child.ok THEN child ELSE DeriveAll(child.value, Tail(indices))

\* The node a private key belongs to.
NodeOf(privKey) == [seed |-> privKey.seed, chain |-> privKey.chain, hasPrivate |-> TRUE]

\* deriveAuthKeyFromRoot with its node variable shared between the calls:
\* a call starts from the node the call before it ended on.
deriveAuthKeyFromRoot_sharedNode(root, params) ==
  LET rpIndex == hashToIndex(params.rpId)
      made == makeAuthPath(rpIndex, Default(params.deviceId, FromInt(0)),
                           Default(params.keyIndex, FromInt(0)), params.version)
      start == IF last.op = "deriveAuthKey" /\ last.ok
               THEN NodeOf(last.value.privKey) ELSE root
      walked == DeriveAll(start, made.indices)
  IN  IF ~walked.ok THEN walked
      ELSE Ok([privKey |-> privateKey(walked.value),
               pubKey |-> getPublicKey(privateKey(walked.value), TRUE),
               path |-> made.path])

\* deriveAuthKeyFromRoot that leaves the rp index out of the walk.
deriveAuthKeyFromRoot_skipsRp(root, params) ==
  LET rpIndex == hashToIndex(params.rpId)
      made == makeAuthPath(rpIndex, Default(params.deviceId, FromInt(0)),
                           Default(params.keyIndex, FromInt(0)), params.version)
      walked == DeriveAll(root, <<made.indices[1], made.indices[2],
                                  made.indices[3], made.indices[5]>>)
  IN  IF ~walked.ok THEN walked
      ELSE Ok([privKey |-> privateKey(walked.value),
               pubKey |-> getPublicKey(privateKey(walked.value), TRUE),
               path |-> made.path])

\* deriveAuthKeyFromRoot that returns what it has when the walk fails or
\* the node has no private key.
deriveAuthKeyFromRoot_returnsPartial(root, params) ==
  LET rpIndex == hashToIndex(params.rpId)
      made == makeAuthPath(rpIndex, Default(params.deviceId, FromInt(0)),
                           Default(params.keyIndex, FromInt(0)), params.version)
      walked == DeriveAll(root, made.indices)
  IN  IF ~walked.ok \/ privateKey(walked.value) = Null
      THEN Ok([privKey |-> Null, pubKey |-> Null, path |-> made.path])
      ELSE Ok([privKey |-> privateKey(walked.value),
               pubKey |-> getPublicKey(privateKey(walked.value), TRUE),
               path |-> made.path])

\* deriveAuthKeyFromRoot with a cache keyed by the parameters alone: a call
\* with the parameters of the call before it returns that call's outcome.
deriveAuthKeyFromRoot_cachesByParams(root, params) ==
  LET rpIndex == hashToIndex(params.rpId)
      made == makeAuthPath(rpIndex, Default(params.deviceId, FromInt(0)),
                           Default(params.keyIndex, FromInt(0)), params.version)
      walked == DeriveAll(root, made.indices)
  IN  IF last.op = "deriveAuthKey" /\ last.args[2] = params
      THEN [ok |-> last.ok, value |-> last.value]
      ELSE IF ~walked.ok THEN walked
      ELSE IF privateKey(walked.value) = Null
           THEN Fail("Unable to derive private key (public-only root?)")
      ELSE Ok([privKey |-> privateKey(walked.value),
               pubKey |-> getPublicKey(privateKey(walked.value), TRUE),
               path |-> made.path])

deriveAuthKeyFromRoot(root, params) ==
  LET rpId == params.rpId
      deviceId == Default(params.deviceId, FromInt(0))
      keyIndex == Default(params.keyIndex, FromInt(0))
      version == params.version
      rpIndex == hashToIndex(rpId)
      made == makeAuthPath(rpIndex, deviceId, keyIndex, version)
      walked == DeriveAll(root, made.indices)
  IN  IF ~walked.ok THEN walked
      ELSE LET node == walked.value
           IN  IF privateKey(node) = Null
               THEN Fail("Unable to derive private key (public-only root?)")
               ELSE LET privKey == privateKey(node)
                        pubKey == getPublicKey(privKey, TRUE)
                    IN  Ok([privKey |-> privKey, pubKey |-> pubKey,
                            path |-> made.path])

(***************************************************************************)
(* auth/sign.ts and auth/verify.ts                                         *)
(***************************************************************************)
\* signChallenge that signs the message bytes themselves.
signChallenge_unhashed(privKey, message) ==
  LET signature == secp_sign(message, privKey)
  IN  IF ~signature.ok THEN signature
      ELSE Ok(toCompactRawBytes(signature.value))

\* signChallenge that signs with whatever bytes it is given as the key.
signChallenge_anyKey(privKey, message) ==
  LET msgHash == sha256Bytes(Bytes(message))
      k == hmac(privKey, msgHash)
  IN  Ok(toCompactRawBytes(
           [r |-> [pointOf |-> k],
            s |-> [key |-> privKey, digest |-> msgHash, nonce |-> k]]))

signChallenge(privKey, message) ==
  LET msgHash == sha256Bytes(Bytes(message))
      signature == secp_sign(msgHash, privKey)
  IN  IF ~signature.ok THEN signature
      ELSE Ok(toCompactRawBytes(signature.value))

\* verifyChallengeSignature that hashes an empty buffer, not the message.
verifyChallengeSignature_hashesEmpty(pubKey, message, signature) ==
  LET msgHash == sha256Bytes(Bytes(<<>>))
  IN  secp_verify(signature, msgHash, pubKey)

verifyChallengeSignature(pubKey, message, signature) ==
  LET msgHash == sha256Bytes(Bytes(message))
  IN  secp_verify(signature, msgHash, pubKey)

(***************************************************************************)
(* Calls.  A call either returns a value or throws an Error with a         *)
(* message.                                                                *)
(***************************************************************************)
Returned(op, args, value) == [op |-> op, args |-> args, ok |-> TRUE, value |-> value]

Threw(op, args, message) == [op |-> op, args |-> args, ok |-> FALSE, value |-> message]

NoCall == [op |-> "none", args |-> <<>>, ok |-> TRUE, value |-> <<>>]

(***************************************************************************)
(* The inputs the calls are made with.                                     *)
(***************************************************************************)
TEST_MESSAGE == "Liberty is always freedom from the government. -Ludwig von Mises"

RpIds ==
  {"", "auth.openpleb.io", "example.com", "auth.example.com", "é.example",
   "rp91957.example.com", "rp166015.example.com",
   "rp13521.example.com", "rp116864.example.com"}

Messages == {"", TEST_MESSAGE, "challenge-1"}

\* 2^31 - 1
MaxIndex31 == Num(32767, 65535)

RpIndexValues == {FromInt(123456789), MaxIndex31, HARDENED_OFFSET}

DeviceIdValues == {Undefined, FromInt(2), MaxIndex31}

KeyIndexValues == {FromInt(5), MaxIndex31, HARDENED_OFFSET}

VersionValues == {Undefined, FromInt(1), MaxIndex31}

(***************************************************************************)
(* The calls on the pure helpers.                                          *)
(***************************************************************************)
HashToIndexCall(input) ==
  /\ last' = Returned("hashToIndex", <<input>>, hashToIndex(input))
  /\ prev' = last
  /\ UNCHANGED <<ctxs, hmacSha256Sync>>

MakeAuthPathCall(rpIndex, deviceId, keyIndex, version) ==
  /\ last' = Returned("makeAuthPath", <<rpIndex, deviceId, keyIndex, version>>,
                      makeAuthPath(rpIndex, deviceId, keyIndex, version))
  /\ prev' = last
  /\ UNCHANGED <<ctxs, hmacSha256Sync>>

Init ==
  /\ ctxs = <<>>
  /\ prev = NoCall
  /\ last = NoCall
  /\ \E installed \in {Undefined, HostHook} :
       hmacSha256Sync = LoadSignModule(installed)

NextHash == \E input \in RpIds \cup Messages : HashToIndexCall(input)

SpecHash == Init /\ [][NextHash]_vars

NextPath ==
  \E rpIndex \in RpIndexValues, deviceId \in DeviceIdValues,
     keyIndex \in KeyIndexValues, version \in VersionValues :
    MakeAuthPathCall(rpIndex, deviceId, keyIndex, version)

SpecPath == Init /\ [][NextPath]_vars

(***************************************************************************)
(* The client's calls on the library.                                      *)
(***************************************************************************)
MaxCtx == 2

Mnemonics == {TEST_MNEMONIC, "not a mnemonic"}

Passphrases == {"", "pw"}

Params(rpId, deviceId, keyIndex, version) ==
  [rpId |-> rpId, deviceId |-> deviceId, keyIndex |-> keyIndex, version |-> version]

DeriveParams ==
  {Params("auth.openpleb.io", FromInt(0), FromInt(0), Undefined),
   Params("auth.openpleb.io", Undefined, Undefined, Undefined),
   Params("example.com", Undefined, Undefined, Undefined),
   Params("rp91957.example.com", Undefined, Undefined, Undefined),
   Params("rp166015.example.com", Undefined, Undefined, Undefined),
   Params("example.com", FromInt(2), FromInt(5), FromInt(1)),
   Params("example.com", Undefined, HARDENED_OFFSET, Undefined),
   Params("example.com", FromInt(0 - 1), Undefined, Undefined),
   Params("example.com", HARDENED_OFFSET, Undefined, Undefined),
   Params("", Undefined, Undefined, Undefined)}

SignMessages == {"", TEST_MESSAGE}

\* A copy of a signature with the byte at offset i changed.
AlterByte(signature, i) ==
  IF i < 32 THEN [signature EXCEPT !.r = [altered |-> @, at |-> i]]
  ELSE [signature EXCEPT !.s = [altered |-> @, at |-> i]]

\* A copy of a signature without its last byte.
DropLastByte(signature) ==
  [signature EXCEPT !.length = 63, !.s = [prefixOf |-> @]]

AlteredOffsets == {0, 63}

\* A 33-byte string that is not the encoding of a point.
MalformedPubKey == [malformed |-> TRUE]

\* Byte strings that are no private key: 31 bytes, 32 zero bytes, and the
\* 32 bytes of the curve order n.
MalformedPrivKeys ==
  {[length |-> 31], [length |-> 32, scalar |-> "0"], [length |-> 32, scalar |-> "n"]}

\* The keys and signatures the client holds: those the last two calls returned.
ReturnedBy(op, call) == IF call.op = op /\ call.ok THEN {call.value} ELSE {}

HeldKeys == ReturnedBy("deriveAuthKey", prev) \cup ReturnedBy("deriveAuthKey", last)

HeldSignatures == ReturnedBy("signChallenge", prev) \cup ReturnedBy("signChallenge", last)

\* const ctx = await fromMnemonic(mnemonic, passphrase)
FromMnemonic(mnemonic, passphrase) ==
  /\ Len(ctxs) < MaxCtx
  /\ LET seed == mnemonicToSeed(mnemonic, passphrase)
     IN  IF ~seed.ok
         THEN /\ last' = Threw("fromMnemonic", <<mnemonic, passphrase>>, seed.value)
              /\ UNCHANGED ctxs
         ELSE /\ ctxs' = Append(ctxs, [root |-> rootFromSeed(seed.value)])
              /\ last' = Returned("fromMnemonic", <<mnemonic, passphrase>>, Len(ctxs) + 1)
  /\ prev' = last
  /\ UNCHANGED hmacSha256Sync

\* await ctxs[c].deriveAuthKey(params)
DeriveAuthKey(c, params) ==
  /\ c \in 1..Len(ctxs)
  /\ LET key == deriveAuthKeyFromRoot(ctxs[c].root, params)
     IN  last' = [op |-> "deriveAuthKey", args |-> <<c, params>>,
                  ok |-> key.ok, value |-> key.value]
  /\ prev' = last
  /\ UNCHANGED <<ctxs, hmacSha256Sync>>

\* signChallenge(key.privKey, new TextEncoder().encode(text))
SignChallenge(key, text) ==
  /\ LET signature == signChallenge(key.privKey, TextEncoder_encode(text))
     IN  last' = [op |-> "signChallenge", args |-> <<key.privKey, text>>,
                  ok |-> signature.ok, value |-> signature.value]
  /\ prev' = last
  /\ UNCHANGED <<ctxs, hmacSha256Sync>>

\* verifyChallengeSignature(pubKey, new TextEncoder().encode(text), signature)
VerifyChallengeSignature(pubKey, text, signature) ==
  /\ LET result == verifyChallengeSignature(pubKey, TextEncoder_encode(text), signature)
     IN  last' = [op |-> "verifyChallengeSignature",
                  args |-> <<pubKey, text, signature>>,
                  ok |-> result.ok, value |-> result.value]
  /\ prev' = last
  /\ UNCHANGED <<ctxs, hmacSha256Sync>>

\* The parameters of the sign and verify flows: two relying parties.
AuthParams ==
  {Params("auth.example.com", FromInt(0), FromInt(0), Undefined),
   Params("example.com", Undefined, Undefined, Undefined)}

Next ==
  \/ \E mnemonic \in Mnemonics : FromMnemonic(mnemonic, "")
  \/ \E c \in 1..MaxCtx, params \in AuthParams : DeriveAuthKey(c, params)
  \/ \E key \in HeldKeys, text \in SignMessages : SignChallenge(key, text)
  \/ \E privKey \in MalformedPrivKeys, text \in SignMessages :
       SignChallenge([privKey |-> privKey], text)
  \/ \E key \in HeldKeys, text \in SignMessages, signature \in HeldSignatures :
       \/ VerifyChallengeSignature(key.pubKey, text, signature)
       \/ \E i \in AlteredOffsets :
            VerifyChallengeSignature(key.pubKey, text, AlterByte(signature, i))
       \/ VerifyChallengeSignature(key.pubKey, text, DropLastByte(signature))
       \/ VerifyChallengeSignature(MalformedPubKey, text, signature)

\* The derivation calls alone, over every passphrase and parameter set.
NextDerive ==
  \/ \E mnemonic \in Mnemonics, passphrase \in Passphrases :
       FromMnemonic(mnemonic, passphrase)
  \/ \E c \in 1..MaxCtx, params \in DeriveParams : DeriveAuthKey(c, params)

SpecDerive == Init /\ [][NextDerive]_vars

\* A master node without its private key, as HDKey.fromExtendedKey makes
\* from an extended public key.
PublicOnly(node) == [node EXCEPT !.hasPrivate = FALSE]

Roots ==
  LET masters == {rootFromSeed(mnemonicToSeedSync(TEST_MNEMONIC, passphrase)) :
                    passphrase \in Passphrases}
  IN  masters \cup {PublicOnly(root) : root \in masters}

\* await deriveAuthKeyFromRoot(root, params), called on a root of the
\* caller's own.
DeriveAuthKeyFromRoot(root, params) ==
  /\ LET key == deriveAuthKeyFromRoot(root, params)
     IN  last' = [op |-> "deriveAuthKeyFromRoot", args |-> <<root, params>>,
                  ok |-> key.ok, value |-> key.value]
  /\ prev' = last
  /\ UNCHANGED <<ctxs, hmacSha256Sync>>

NextRoot ==
  \E root \in Roots, params \in DeriveParams : DeriveAuthKeyFromRoot(root, params)

SpecRoot == Init /\ [][NextRoot]_vars

Spec == Init /\ [][Next]_vars

(***************************************************************************)
(* Properties                                                              *)
(***************************************************************************)
\* n is an integer in [0, 2^31 - 1].
InRange31(n) == n.hi >= 0 /\ n.hi < 32768 /\ n.lo >= 0 /\ n.lo < 65536

\* n is a hardened index: an integer in [0x80000000, 2^32 - 1].
IsHardened(n) == n.hi >= 32768 /\ n.hi < 65536 /\ n.lo >= 0 /\ n.lo < 65536

\* C1: every hashToIndex call returns, without an error, an integer in
\* [0, 2^31 - 1], and two calls on the same string return the same value.
HashToIndexInRangeAndRepeatable ==
  /\ last.op = "hashToIndex" => last.ok /\ InRange31(last.value)
  /\ (last.op = "hashToIndex" /\ prev.op = "hashToIndex" /\ prev.args = last.args)
        => (prev.ok = last.ok /\ prev.value = last.value)

\* The empty string hashed twice in a row (its digest starts with 0xe3, so
\* the top bit of the raw word is set).
HashToIndexWitness ==
  /\ last.op = "hashToIndex" /\ last.args = <<"">>
  /\ prev.op = "hashToIndex" /\ prev.args = <<"">>
  /\ last.value = FromInt(1672528962)

\* C2: for arguments in [0, 2^31 - 1], makeAuthPath returns exactly the five
\* indices purpose + 2^31, version + 2^31, deviceId + 2^31, rpIndex + 2^31 and
\* keyIndex itself, in this order.
MakeAuthPathIndices ==
  (last.op = "makeAuthPath" /\ \A i \in 1..4 : last.args[i] # Undefined /\ InRange31(last.args[i]))
    => LET a == last.args
           ix == last.value.indices
       IN  /\ last.ok
           /\ Len(ix) = 5
           /\ ix[1] = Num(32769, 62737)
           /\ ix[2] = Num(a[4].hi + 32768, a[4].lo)
           /\ ix[3] = Num(a[2].hi + 32768, a[2].lo)
           /\ ix[4] = Num(a[1].hi + 32768, a[1].lo)
           /\ ix[5] = a[3]

MakeAuthPathIndicesWitness ==
  /\ last.op = "makeAuthPath"
  /\ last.args = <<MaxIndex31, MaxIndex31, MaxIndex31, MaxIndex31>>
  /\ last.value.indices[4] = Num(65535, 65535)

\* The pieces of a string between the occurrences of a separator.
SplitAt(s, sep) ==
  LET at == {i \in 1..Len(s) : s[i] = sep}
      nth(k) == CHOOSE p \in at : Cardinality({q \in at : q < p}) = k - 1
      n == Cardinality(at) + 1
  IN  [k \in 1..n |->
        SubSeq(s, IF k = 1 THEN 1 ELSE nth(k - 1) + 1,
                  IF k = n THEN Len(s) ELSE nth(k) - 1)]

\* A decimal numeral: an optional minus sign and one or more digits.
IsDecimal(chars) ==
  LET digits == IF chars # <<>> /\ Head(chars) = "-" THEN Tail(chars) ELSE chars
  IN  /\ digits # <<>>
      /\ \A i \in 1..Len(digits) : \E d \in 1..10 : DigitChar[d] = digits[i]

RECURSIVE ParseDigits(_, _)
ParseDigits(chars, acc) ==
  IF chars = <<>> THEN acc
  ELSE LET d == (CHOOSE k \in 1..10 : DigitChar[k] = Head(chars)) - 1
           l == acc.lo * 10 + d
       IN  ParseDigits(Tail(chars), Num(acc.hi * 10 + (l \div 65536), l % 65536))

\* The number a decimal numeral denotes.
ParseDec(chars) ==
  IF Head(chars) = "-" THEN NumNeg(ParseDigits(Tail(chars), Num(0, 0)))
  ELSE ParseDigits(chars, Num(0, 0))

\* s without its last character.
Front(s) == SubSeq(s, 1, Len(s) - 1)

EndsWithApostrophe(s) == s # <<>> /\ s[Len(s)] = "'"

ExampleArgs == <<FromInt(123456789), FromInt(2), FromInt(5), FromInt(1)>>

\* m/128273'/1'/2'/123456789'/5
ExamplePath ==
  <<"m", "/", "1", "2", "8", "2", "7", "3", "'", "/", "1", "'", "/", "2", "'", "/",
    "1", "2", "3", "4", "5", "6", "7", "8", "9", "'", "/", "5">>

Apostrophes(s) == Cardinality({i \in 1..Len(s) : s[i] = "'"})

SeedOf(call) == ctxs[call.args[1]].root.seed

BothDerive == prev.op = "deriveAuthKey" /\ last.op = "deriveAuthKey"

\* C5 as stated: in every index sequence that deriveAuthKeyFromRoot walks to
\* a key, the first four indices are hardened (in [0x80000000, 2^32 - 1]) and
\* the fifth is non-hardened (in [0, 0x80000000 - 1]), whatever deviceId,
\* keyIndex and version the caller supplied.
WalkedIndicesHardening ==
  (last.op = "deriveAuthKey" /\ last.ok)
    => LET ix == last.value.privKey.chain
       IN  /\ Len(ix) = 5
           /\ \A i \in 1..4 : IsHardened(ix[i])
           /\ InRange31(ix[5])

\* C6: two deriveAuthKey calls with the same parameters, on one RootContext
\* or on two RootContexts built from the same mnemonic and passphrase, return
\* the same privKey, pubKey and path.
DeriveAuthKeyDeterministic ==
  (BothDerive /\ SeedOf(prev) = SeedOf(last) /\ prev.args[2] = last.args[2])
    => /\ prev.ok = last.ok
       /\ last.ok => /\ prev.value.privKey = last.value.privKey
                     /\ prev.value.pubKey = last.value.pubKey
                     /\ prev.value.path = last.value.path

\* The same parameters derived on two RootContexts of the same seed.
DeriveAuthKeyDeterministicWitness ==
  /\ BothDerive
  /\ prev.args[1] # last.args[1]
  /\ SeedOf(prev) = SeedOf(last)
  /\ prev.args[2] = last.args[2]
  /\ prev.ok /\ last.ok
  /\ prev.value = last.value

\* Two successful deriveAuthKey calls on the same seed whose parameters
\* differ in the rpId and in nothing else.
DifferInRpIdOnly ==
  /\ BothDerive /\ prev.ok /\ last.ok
  /\ SeedOf(prev) = SeedOf(last)
  /\ prev.args[2].rpId # last.args[2].rpId
  /\ prev.args[2].deviceId = last.args[2].deviceId
  /\ prev.args[2].keyIndex = last.args[2].keyIndex
  /\ prev.args[2].version = last.args[2].version

\* C7 as stated: for a fixed seed, deviceId, keyIndex and version, two
\* deriveAuthKey calls with different rpIds return different paths and
\* different pubKeys.
DistinctRpIdsGiveDistinctKeys ==
  DifferInRpIdOnly
    => /\ prev.value.path # last.value.path
       /\ prev.value.pubKey # last.value.pubKey

\* C7 amended: for a fixed seed, deviceId, keyIndex and version, two
\* deriveAuthKey calls whose rpIds hash to different indices return different
\* paths and different pubKeys, and two calls whose rpIds differ but hash to
\* the same index (rp91957.example.com and rp166015.example.com do) return
\* the same path and the same pubKey.
DistinctRpIndicesGiveDistinctKeys ==
  DifferInRpIdOnly
    => IF hashToIndex(prev.args[2].rpId) # hashToIndex(last.args[2].rpId)
       THEN /\ prev.value.path # last.value.path
            /\ prev.value.pubKey # last.value.pubKey
       ELSE /\ prev.value.path = last.value.path
            /\ prev.value.pubKey = last.value.pubKey

\* The two relying parties of the library's own test, derived one after the
\* other.
DistinctRpIndicesGiveDistinctKeysWitness ==
  /\ DifferInRpIdOnly
  /\ prev.args[2].rpId = "auth.openpleb.io"
  /\ last.args[2].rpId = "example.com"
  /\ prev.value.pubKey # last.value.pubKey

\* The public key, the text and the signature of a verify call.
IsVerify == last.op = "verifyChallengeSignature"

Accepted == last.ok /\ last.value = TRUE

\* The signature signChallenge returns for a key and a text.
SignatureOf(privKey, text) == signChallenge(privKey, TextEncoder_encode(text))

\* signature is one that signChallenge made, with some key, over the text.
MadeOver(signature, text) ==
  /\ signature.length = 64
  /\ "key" \in DOMAIN signature.s
  /\ SignatureOf(signature.s.key, text) = Ok(signature)

\* C8: the signature signChallenge returns for a derived private key and a
\* message, the empty message included, verifies under the matching public
\* key and the same message.
SignThenVerifyRoundTrip ==
  (/\ prev.op = "signChallenge" /\ prev.ok
   /\ IsVerify
   /\ last.args[1] = getPublicKey(prev.args[1], TRUE)
   /\ last.args[2] = prev.args[2]
   /\ last.args[3] = prev.value)
    => Accepted

\* The empty message signed and then verified.
SignThenVerifyRoundTripWitness ==
  /\ prev.op = "signChallenge" /\ prev.ok /\ prev.args[2] = ""
  /\ IsVerify
  /\ last.args = <<getPublicKey(prev.args[1], TRUE), "", prev.value>>
  /\ Accepted

\* C9: verifyChallengeSignature returns true only for the signature that
\* signChallenge makes over the same message with the private key of pubKey:
\* it returns false for a signature with a byte altered, for a signature made
\* over another message and for a signature made with another key.
VerifyAcceptsOnlyTheSignature ==
  IsVerify
    => LET pubKey == last.args[1]
           text == last.args[2]
           signature == last.args[3]
       IN  /\ Accepted => /\ IsPoint(pubKey)
                          /\ SignatureOf(pubKey.pubOf, text) = Ok(signature)
           /\ (prev.op = "signChallenge" /\ prev.ok)
                => /\ (\E i \in 0..63 : signature = AlterByte(prev.value, i))
                        => ~Accepted
                   /\ (signature = prev.value /\ text # prev.args[2]) => ~Accepted
           /\ \A other \in SignMessages \ {text} :
                MadeOver(signature, other) => ~Accepted
           /\ (/\ \E signed \in SignMessages : MadeOver(signature, signed)
               /\ IsPoint(pubKey)
               /\ signature.s.key # pubKey.pubOf)
                => ~Accepted

\* A signature made with one derived key, checked against the public key of
\* another over the message it was made over.
VerifyAcceptsOnlyTheSignatureWitness ==
  /\ IsVerify
  /\ IsPoint(last.args[1])
  /\ MadeOver(last.args[3], last.args[2])
  /\ last.args[3].s.key # last.args[1].pubOf
  /\ last.ok /\ last.value = FALSE

\* C10 as stated: verifyChallengeSignature never raises an error; for a
\* malformed public key, for a signature that is not 64 bytes long and for an
\* invalid signature it returns false.
VerifyNeverThrows ==
  IsVerify
    => /\ last.ok
       /\ last.value \in BOOLEAN
       /\ (\/ ~IsPoint(last.args[1])
           \/ last.args[3].length # 64
           \/ ~MadeOver(last.args[3], last.args[2]))
            => last.value = FALSE

(***************************************************************************)
(* The kinds of failure, by the messages of the Errors the code and its    *)
(* packages throw.                                                         *)
(***************************************************************************)
\* Hardened derivation without private material.
KeyUnavailable ==
  {"Could not derive hardened child key",
   "Unable to derive private key (public-only root?)"}

\* An out-of-range numeric input to path building or derivation.
InvalidParameter == {"invalid number, should be from 0 to 2**32-1"}

\* Signing with a malformed private key.
InvalidKey == {"Uint8Array expected", "private key out of range"}

IsDeriveFromRoot == last.op = "deriveAuthKeyFromRoot"

\* C11: deriveAuthKeyFromRoot called with a public-only root fails with a
\* KeyUnavailable error and returns no DerivedKey, complete or partial,
\* whatever the parameters.
PublicOnlyRootIsKeyUnavailable ==
  (IsDeriveFromRoot /\ ~last.args[1].hasPrivate)
    => /\ ~last.ok
       /\ last.value \in KeyUnavailable

\* A call on a public-only root that failed at the first hardened child.
PublicOnlyRootIsKeyUnavailableWitness ==
  /\ IsDeriveFromRoot
  /\ ~last.args[1].hasPrivate
  /\ last.args[2].rpId = "example.com"
  /\ ~last.ok
  /\ last.value = "Could not derive hardened child key"

\* C12 as stated: makeAuthPath fails with an InvalidParameter error, and
\* returns neither path nor indices, whenever version, deviceId or rpIndex
\* is not below HARDENED_OFFSET.
MakeAuthPathRejectsOutOfRange ==
  (/\ last.op = "makeAuthPath"
   /\ \/ ~NumLess(last.args[1], HARDENED_OFFSET)
      \/ ~NumLess(Default(last.args[2], FromInt(0)), HARDENED_OFFSET)
      \/ ~NumLess(Default(last.args[4], FromInt(DEFAULT_AUTH_VERSION)),
                  HARDENED_OFFSET))
    => /\ ~last.ok
       /\ last.value \in InvalidParameter

\* The parameters of a deriveAuthKey call that the permitted ranges exclude.
OutOfRange31(x) == x # Undefined /\ ~InRange31(x)

InvalidParams(params) ==
  \/ params.rpId = ""
  \/ OutOfRange31(params.deviceId)
  \/ OutOfRange31(params.keyIndex)
  \/ OutOfRange31(params.version)

\* C13 as stated: deriveAuthKey fails with an InvalidParameter error, and
\* returns no DerivedKey, when rpId is the empty string or when deviceId,
\* keyIndex or version lies outside [0, 2^31 - 1].
DeriveRejectsInvalidParams ==
  (last.op = "deriveAuthKey" /\ InvalidParams(last.args[2]))
    => /\ ~last.ok
       /\ last.value \in InvalidParameter

IsSign == last.op = "signChallenge"

\* C14: signChallenge fails with an InvalidKey error, and returns no
\* signature, when privKey is not 32 bytes long, or is zero, or is not
\* below the curve order.
SignRejectsInvalidKey ==
  (IsSign /\ last.args[1] \in MalformedPrivKeys)
    => /\ ~last.ok
       /\ last.value \in InvalidKey

\* signChallenge called with 32 zero bytes as the key.
SignRejectsInvalidKeyWitness ==
  /\ IsSign
  /\ last.args[1] = [length |-> 32, scalar |-> "0"]
  /\ ~last.ok
  /\ last.value = "private key out of range"

\* The compact signature with the RFC 6979 nonce for a key and a text.
Rfc6979Signature(privKey, text) ==
  LET msgHash == sha256[Utf8(CodePoints[text])]
      k == hmac(privKey, msgHash)
  IN  [length |-> 64,
       r |-> [pointOf |-> k],
       s |-> [key |-> privKey, digest |-> msgHash, nonce |-> k]]

\* C15: for a valid privKey and a message, every signChallenge call returns
\* the same signature bytes, those of the RFC 6979 signature, whatever calls
\* were made before it and whether the HMAC hook was installed by the load
\* of auth/sign.ts or was already there.
SignChallengeIsDeterministic ==
  (IsSign /\ IsPrivateKey(last.args[1]))
    => /\ last.ok
       /\ last.value = Rfc6979Signature(last.args[1], last.args[2])
       /\ (prev.op = "signChallenge" /\ prev.args = last.args)
            => (prev.ok /\ prev.value = last.value)

\* The same key and message signed twice in a row, with a hook that was
\* already installed when auth/sign.ts was loaded.
SignChallengeIsDeterministicWitness ==
  /\ IsSign /\ IsPrivateKey(last.args[1])
  /\ prev.op = "signChallenge" /\ prev.args = last.args
  /\ last.ok /\ prev.value = last.value
  /\ hmacSha256Sync = HostHook

\* The digest of the UTF-8 encoding of a string.
DigestOf(str) == sha256[Utf8(CodePoints[str])]

\* Bytes 0..3 of a digest read as a big-endian unsigned integer with the
\* top bit of byte 0 cleared.
Low31(digest) ==
  (digest[1] % 128) * 16777216 + digest[2] * 65536 + digest[3] * 256 + digest[4]

\* C16: hashToIndex(s) is bytes 0..3 of the 32-byte digest of the UTF-8
\* encoding of s, read as a big-endian unsigned 32-bit integer, with the top
\* bit cleared; two strings whose digests agree on those 31 bits have the
\* same index, whatever the top bit of byte 0 and the other 28 bytes are.
HashToIndexIsLow31OfDigest ==
  (last.op = "hashToIndex")
    => /\ Len(DigestOf(last.args[1])) = 32
       /\ last.ok
       /\ last.value = Num(Low31(DigestOf(last.args[1])) \div 65536,
                           Low31(DigestOf(last.args[1])) % 65536)
       /\ (/\ prev.op = "hashToIndex"
           /\ Low31(DigestOf(prev.args[1])) = Low31(DigestOf(last.args[1])))
            => prev.value = last.value

\* Two strings whose digests differ in the top bit of byte 0 and in their
\* last 28 bytes, and agree on the other 31 bits of bytes 0..3.
HashToIndexIsLow31OfDigestWitness ==
  /\ prev.op = "hashToIndex" /\ last.op = "hashToIndex"
  /\ prev.args[1] # last.args[1]
  /\ DigestOf(prev.args[1])[1] = DigestOf(last.args[1])[1] + 128
  /\ SubSeq(DigestOf(prev.args[1]), 5, 32) # SubSeq(DigestOf(last.args[1]), 5, 32)
  /\ prev.value = last.value

\* C17: a RootContext holds no mutable state.  The master node of every
\* context stays the node rootFromSeed made for its seed, and every
\* deriveAuthKey call, after whatever calls on this or another context,
\* succeeding or failing, has the outcome of the walk of its own five
\* indices from that master node; two calls in a row on one context with
\* the same parameters have the same outcome.
RootContextHoldsNoState ==
  /\ \A c \in 1..Len(ctxs) : ctxs[c].root = rootFromSeed(ctxs[c].root.seed)
  /\ (last.op = "deriveAuthKey")
       => LET master == rootFromSeed(SeedOf(last))
              params == last.args[2]
              made == makeAuthPath(hashToIndex(params.rpId),
                                   Default(params.deviceId, FromInt(0)),
                                   Default(params.keyIndex, FromInt(0)),
                                   params.version)
              alone == DeriveAll(master, made.indices)
          IN  /\ last.ok = alone.ok
              /\ ~last.ok => last.value = alone.value
              /\ last.ok => /\ last.value.privKey = privateKey(alone.value)
                            /\ last.value.pubKey =
                                 getPublicKey(privateKey(alone.value), TRUE)
                            /\ last.value.path = made.path
  /\ (BothDerive /\ prev.args = last.args)
       => (prev.ok = last.ok /\ prev.value = last.value)

\* A call that succeeds on a context right after a call that failed on it,
\* with a second context in existence.
RootContextHoldsNoStateWitness ==
  /\ BothDerive
  /\ Len(ctxs) = 2
  /\ prev.args[1] = last.args[1]
  /\ ~prev.ok
  /\ last.ok
  /\ last.value.privKey.seed = SeedOf(last)
====
